---- MODULE Spec2Model ----
(***************************************************************************)
(* A model of reqselenium: a requests.Session subclass (src/reqselenium.py) *)
(* that owns a lazily started selenium driver, and the DriverMixin helpers *)
(* (src/mixin.py) for cookie injection, element waits and the robust click.*)
(*                                                                         *)
(* Strings that the code indexes, slices, concatenates or searches are     *)
(* sequences of one-character strings ("s.c" is <<"s", ".", "c">>); a URL  *)
(* is the token "http://" followed by the host's characters and a path.    *)
(* requests, selenium and tldextract are external: their calls are         *)
(* nondeterministic choices over the results their interfaces allow.       *)
(***************************************************************************)
EXTENDS Naturals, Sequences, FiniteSets

VARIABLES
    pc,                   \* position of the single thread of control
    op,                   \* the operation in progress or last finished
    exc,                  \* the exception the last operation raised, or "none"
    browser,              \* Session.browser
    _driver_initializer,  \* Session._driver_initializer
    _driver,              \* Session._driver: 0 is None, n > 0 the n-th instance
    _last_requests_url,   \* Session._last_requests_url (Unset: no such attribute)
    cookies,              \* Session.cookies, the jar
    default_timeout,      \* DriverMixin.default_timeout
    current_url,          \* the browser's current_url
    driver_cookies,       \* the browser's cookie store (get_cookies())
    domain_arg,           \* history: the domain argument of this push
    domain,               \* transfer_session_cookies_to_driver: local domain
    todo,                 \* transfer_session_cookies_to_driver: cookies left to add
    cookie,               \* ensure_add_cookie: the dict it was handed
    caller,               \* ensure_add_cookie: who called it
    trace,                \* history: this ensure_add_cookie's entry and browser calls
    calls,                \* history: ensure_add_cookie calls made by this push
    started,              \* history: driver initializers completed
    accessed,             \* history: the driver property was evaluated
    returned,             \* history: what the last evaluation of driver returned
    last_response,        \* history: final URL of the last response
    copy_arg,             \* history: copy_user_agent of the last transfer to the session
    wait,                 \* ensure_element: locator, state, timeout in effect
    polls,                \* ensure_element: polls made by WebDriverWait.until
    element,              \* ensure_element: the value returned
    clicks,               \* _ensure_click: history of click attempts and sleeps
    last_error,           \* _ensure_click: history, str(e) of the last failed click
    exception_message,    \* _ensure_click: local exception_message
    user_agent,           \* Session.user_agent
    headers,              \* Session.headers["user-agent"]
    navigator,            \* the browser's navigator.userAgent
    http_proxy,           \* Session.http_proxy
    ssl_proxy,            \* Session.ssl_proxy
    _desired_capabilities,\* Session._desired_capabilities: None, or the dict it refers to
    DesiredCapabilities,  \* selenium's DesiredCapabilities.FIREFOX / .CHROME: their proxy entry
    capabilities,         \* the proxy entry of the capabilities the engine was built from
    _selector,            \* ReqSeleniumResponse._selector of the last wrapped response
    parses,               \* history: Selector(text=...) constructions for that response
    queries               \* history: xpath/css/re/re_first calls on that response

sessionVars ==
    <<browser, _driver_initializer, _driver, _last_requests_url, cookies, user_agent, headers>>
driverVars == <<default_timeout, current_url, driver_cookies, navigator>>
bridgeVars == <<domain_arg, domain, todo, cookie, caller, trace, calls>>
historyVars == <<started, accessed, returned, last_response, copy_arg>>
waitVars == <<wait, polls, element, clicks, last_error, exception_message>>
proxyVars == <<http_proxy, ssl_proxy, _desired_capabilities, DesiredCapabilities, capabilities>>
responseVars == <<_selector, parses, queries>>
vars ==
    <<pc, op, exc, sessionVars, driverVars, bridgeVars, historyVars, waitVars,
      proxyVars, responseVars>>

----------------------------------------------------------------------------
(* Bounds of the model.                                                    *)

\* Longest jar the model follows.
MaxJar == 2
\* Most cookies the browser store holds in the model.
MaxStore == 2
\* Longest wait, in polls of WebDriverWait.
MaxTimeout == 2
\* Most query calls followed on one wrapped response.
MaxQueries == 3

----------------------------------------------------------------------------
(* Strings.                                                                *)

\* Python's None, and an attribute that was never assigned.
None == <<"<None>">>
Unset == <<"<unset>">>

\* Python truthiness of a string-or-None value.
Falsy(s) == s = None \/ s = <<>>

\* Python's  a in b  on strings.
IsSubstring(a, b) ==
    \E i \in 0..Len(b) : i + Len(a) <= Len(b) /\ SubSeq(b, i + 1, i + Len(a)) = a

\* str.split(".") : the labels of a host name.
RECURSIVE Split(_)
Split(s) ==
    IF \A i \in 1..Len(s) : s[i] # "."
    THEN <<s>>
    ELSE LET k == CHOOSE i \in 1..Len(s) :
                      s[i] = "." /\ \A j \in 1..(i - 1) : s[j] # "."
         IN <<SubSeq(s, 1, k - 1)>> \o Split(SubSeq(s, k + 1, Len(s)))

\* ".".join(labels)
RECURSIVE Join(_)
Join(labels) ==
    IF labels = <<>> THEN <<>>
    ELSE IF Len(labels) = 1 THEN labels[1]
    ELSE labels[1] \o <<".">> \o Join(Tail(labels))

\* The public suffix list the model knows: the one-label suffix "c".
PublicSuffixes == {<<"c">>}

\* The network location of a URL or bare host: scheme and path dropped.
Netloc(u) ==
    LET rest == IF u # <<>> /\ u[1] = "http://" THEN Tail(u) ELSE u
    IN IF \A i \in 1..Len(rest) : rest[i] # "/"
       THEN rest
       ELSE LET k == CHOOSE i \in 1..Len(rest) :
                         rest[i] = "/" /\ \A j \in 1..(i - 1) : rest[j] # "/"
            IN SubSeq(rest, 1, k - 1)

\* tldextract.extract(x): subdomain, domain and suffix of a URL or host.
extract(x) ==
    LET labels == Split(Netloc(x))
        n == Len(labels)
    IN IF labels[n] \in PublicSuffixes
       THEN [subdomain |-> IF n > 2 THEN Join(SubSeq(labels, 1, n - 2)) ELSE <<>>,
             domain |-> IF n > 1 THEN labels[n - 1] ELSE <<>>,
             suffix |-> labels[n]]
       ELSE [subdomain |-> IF n > 1 THEN Join(SubSeq(labels, 1, n - 1)) ELSE <<>>,
             domain |-> labels[n],
             suffix |-> <<>>]

\* ExtractResult.registered_domain
registered_domain(x) ==
    LET r == extract(x)
    IN IF r.suffix # <<>> /\ r.domain # <<>>
       THEN r.domain \o <<".">> \o r.suffix
       ELSE <<>>

\* ExtractResult.fqdn
fqdn(x) ==
    LET r == extract(x)
    IN IF r.suffix # <<>> /\ r.domain # <<>>
       THEN Join(SelectSeq(<<r.subdomain, r.domain, r.suffix>>, LAMBDA l : l # <<>>))
       ELSE <<>>

----------------------------------------------------------------------------
(* The hosts, URLs and cookies the model draws its inputs from.            *)

\* "s.c": a registrable domain; "w.s.c": a host under it; ".s.c": its
\* include-subdomains form; "ns.c": another registrable domain that has
\* "s.c" as a substring.
Site == <<"s", ".", "c">>
WwwSite == <<"w", ".", "s", ".", "c">>
DotSite == <<".", "s", ".", "c">>
NotSite == <<"n", "s", ".", "c">>

\* 'http://' + host
HttpUrl(host) == <<"http://">> \o host

\* What a freshly started browser shows.
BlankUrl == <<"about:blank">>

\* Final URLs a response of the HTTP client may carry.
ResponseUrls == {HttpUrl(WwwSite) \o <<"/", "p">>, HttpUrl(NotSite) \o <<"/">>}

Names == {"a"}
Values == {"1"}
\* Cookie domains: those the model's servers set, and those the driver's
\* cookie helper is called with.
ServerDomains == {WwwSite, NotSite}
CookieDomains == {Site, WwwSite, DotSite, NotSite, <<>>}

\* A cookie as cookies.set(name, value, domain=d) makes it: at the root path.
JarCookie(n, v, d) == [name |-> n, value |-> v, domain |-> d, path |-> "/", expires |-> "None"]
JarCookies == {JarCookie(n, v, d) : n \in Names, v \in Values, d \in ServerDomains}
\* A cookie a response sets with a Path attribute.
ServerCookie(n, v, d, p) == [JarCookie(n, v, d) EXCEPT !.path = p]

----------------------------------------------------------------------------
(* Exceptions and control.                                                 *)

\* An exception: its class, its fixed text and the detail it carries.
Exc(type, what, msg) == [type |-> type, what |-> what, msg |-> msg]
NoExc == Exc("none", "", "")

\* The operation returns normally / raises e to the caller.
Return(name) == pc' = "ready" /\ op' = name /\ exc' = NoExc
Raise(name, e) == pc' = "ready" /\ op' = name /\ exc' = e

----------------------------------------------------------------------------
(* Element Wait Engine: DriverMixin.ensure_element and _ensure_click.      *)

\* The keys of the locators table.
Locators ==
    {"id", "name", "xpath", "link_text", "partial_link_text", "tag_name",
     "class_name", "css_selector"}
\* The locator arguments tried: the table's keys and one that is not a key.
LocatorArgs == Locators \cup {"bogus"}
\* WaitStates with the final else taken for a wait as well.
WaitStatesAndElse == {"visible", "clickable", "present", "invisible", "hidden"}
\* The states ensure_element has a branch for, and the arguments tried.
WaitStates == {"visible", "clickable", "present", "invisible"}
StateArgs == WaitStates \cup {"hidden"}

\* Range of the retry loop and the pause after a failed click, in ms.
ClickAttempts == 10
SleepMs == 200
\* str(e) of the WebDriverException a click may raise.
ErrorMessages == {"not clickable", "not interactable"}

NoWait == [locator |-> "", state |-> "", timeout |-> 0]
\* The value ensure_element returns: None, or the element with its extra method.
NoElement == [handle |-> "None", ensure_click |-> FALSE]
\* element.ensure_click = partial(_ensure_click, element)
WithEnsureClick(handle) == [handle |-> handle, ensure_click |-> TRUE]

ClickEvent(ok) == [ev |-> "click", ok |-> ok, ms |-> 0]
SleepEvent(ms) == [ev |-> "sleep", ok |-> FALSE, ms |-> ms]
\* Number of click() calls of the running or last _ensure_click.
ClickCount == Cardinality({i \in 1..Len(clicks) : clicks[i].ev = "click"})

\* ensure_element(locator, selector, state, timeout), up to the wait it starts.
\* timeout 0 stands for None (and 0): the default applies.
ensure_element(locator, state, timeout) ==
    /\ pc = "ready"
    /\ _driver # 0
    /\ polls' = 0
    /\ element' = NoElement
    /\ clicks' = <<>>
    /\ last_error' = ""
    /\ exception_message' = ""
    /\ IF locator \notin Locators
       THEN /\ Raise("ensure_element", Exc("KeyError", "", locator))
            /\ wait' = NoWait
       ELSE /\ wait' = [locator |-> locator, state |-> state,
                        timeout |-> IF timeout = 0 THEN default_timeout ELSE timeout]
            /\ IF state \in WaitStates
               THEN pc' = "waiting" /\ op' = "ensure_element" /\ exc' = NoExc
               ELSE Raise("ensure_element",
                          Exc("ValueError", "The 'state' argument must be 'visible', 'clickable', 'present' or 'invisible'", state))
    /\ UNCHANGED <<sessionVars, driverVars, bridgeVars, historyVars, proxyVars, responseVars>>

\* until returning what the wait condition gave, for invisible as well.
until_keeps_element(found) ==
    /\ pc = "waiting"
    /\ polls' = polls + 1
    /\ IF found
       THEN /\ element' = WithEnsureClick("element")
            /\ Return("ensure_element")
       ELSE /\ element' = element
            /\ IF polls + 1 >= wait.timeout
               THEN Raise("ensure_element", Exc("TimeoutException", "", ""))
               ELSE UNCHANGED <<pc, op, exc>>
    /\ UNCHANGED <<wait, clicks, last_error, exception_message>>
    /\ UNCHANGED <<sessionVars, driverVars, bridgeVars, historyVars, proxyVars, responseVars>>

\* One poll of WebDriverWait(self, timeout).until(condition), and, when the
\* condition holds, the rest of ensure_element.
until(found) ==
    /\ pc = "waiting"
    /\ polls' = polls + 1
    /\ IF found
       THEN /\ element' = IF wait.state = "invisible"
                          THEN NoElement
                          ELSE WithEnsureClick("element")
            /\ Return("ensure_element")
       ELSE /\ element' = element
            /\ IF polls + 1 >= wait.timeout
               THEN Raise("ensure_element", Exc("TimeoutException", "", ""))
               ELSE UNCHANGED <<pc, op, exc>>
    /\ UNCHANGED <<wait, clicks, last_error, exception_message>>
    /\ UNCHANGED <<sessionVars, driverVars, bridgeVars, historyVars, proxyVars, responseVars>>

\* element.ensure_click(): the scroll script, which may itself raise.
ensure_click(scrolled) ==
    /\ pc = "ready"
    /\ element.ensure_click
    /\ clicks' = <<>>
    /\ last_error' = ""
    /\ exception_message' = ""
    /\ wait' = NoWait
    /\ polls' = 0
    /\ IF scrolled
       THEN pc' = "clicking" /\ op' = "ensure_click" /\ exc' = NoExc
       ELSE Raise("ensure_click", Exc("WebDriverException", "", "script"))
    /\ UNCHANGED element
    /\ UNCHANGED <<sessionVars, driverVars, bridgeVars, historyVars, proxyVars, responseVars>>

\* click with the loop running once too often.
click_once_more(result) ==
    /\ pc = "clicking"
    /\ IF result = "ok"
       THEN /\ clicks' = Append(clicks, ClickEvent(TRUE))
            /\ UNCHANGED <<last_error, exception_message>>
            /\ Return("ensure_click")
       ELSE /\ clicks' = clicks \o <<ClickEvent(FALSE), SleepEvent(SleepMs)>>
            /\ last_error' = result
            /\ exception_message' = result
            /\ IF ClickCount + 1 > ClickAttempts
               THEN Raise("ensure_click",
                          Exc("WebDriverException", "Couldn't click item after trying 10 times",
                              exception_message'))
               ELSE UNCHANGED <<pc, op, exc>>
    /\ UNCHANGED <<wait, polls, element>>
    /\ UNCHANGED <<sessionVars, driverVars, bridgeVars, historyVars, proxyVars, responseVars>>

\* One pass of  for _ in range(10): try: self.click() ... ; result is "ok" or
\* the message of the WebDriverException click() raised.
click(result) ==
    /\ pc = "clicking"
    /\ IF result = "ok"
       THEN /\ clicks' = Append(clicks, ClickEvent(TRUE))
            /\ UNCHANGED <<last_error, exception_message>>
            /\ Return("ensure_click")
       ELSE /\ clicks' = clicks \o <<ClickEvent(FALSE), SleepEvent(SleepMs)>>
            /\ last_error' = result
            /\ exception_message' = result
            /\ IF ClickCount + 1 >= ClickAttempts
               THEN Raise("ensure_click",
                          Exc("WebDriverException", "Couldn't click item after trying 10 times",
                              exception_message'))
               ELSE UNCHANGED <<pc, op, exc>>
    /\ UNCHANGED <<wait, polls, element>>
    /\ UNCHANGED <<sessionVars, driverVars, bridgeVars, historyVars, proxyVars, responseVars>>

----------------------------------------------------------------------------
(* Cookies: the jar of the HTTP client and the store of the browser.       *)

\* The dict transfer_session_cookies_to_driver builds from a jar cookie.
CookieDict(c) ==
    [name |-> c.name, value |-> c.value, path |-> c.path, expiry |-> c.expires,
     domain |-> c.domain]
NoCookie == [name |-> "", value |-> "", path |-> "", expiry |-> "", domain |-> <<>>]

\* A cookie as get_cookies() reports it.
DriverCookie(n, v, d, p) == [name |-> n, value |-> v, domain |-> d, path |-> p]

\* RequestsCookieJar.set_cookie: the jar holds one cookie per domain, path
\* and name; the order in which it is iterated is left open.
SameKey(a, b) == a.domain = b.domain /\ a.path = b.path /\ a.name = b.name
JarSet(jar, c) == {x \in jar : ~SameKey(x, c)} \cup {c}

\* The orders in which a collection of cookies may be iterated.
Listings(set) ==
    {l \in [1..Cardinality(set) -> set] : \A i, j \in 1..Len(l) : i # j => l[i] # l[j]}

\* The browser's own add of a cookie it accepts: one cookie per name, domain
\* and path.
StoreSet(store, c) ==
    {x \in store : ~(x.name = c.name /\ x.domain = c.domain /\ x.path = c.path)} \cup {c}

\* What the browser may do with add_cookie(cookie): keep it under the domain
\* given, keep it under the dotted form of that domain, drop it silently
\* (each a resulting store), or raise.
AddCookieStores(store, c) ==
    LET asGiven == StoreSet(store, DriverCookie(c.name, c.value, c.domain, c.path))
        dotted == StoreSet(store, DriverCookie(c.name, c.value, <<".">> \o c.domain, c.path))
    IN {store}
       \cup {st \in {asGiven} : Cardinality(st) <= MaxStore}
       \cup {st \in {dotted} :
                 c.domain # <<>> /\ Head(c.domain) # "." /\ Cardinality(st) <= MaxStore}

\* is_cookie_in_driver comparing the domains with their leading dots dropped.
is_cookie_in_driver_lenient(c, got) ==
    \E driver_cookie \in got :
        /\ c.name = driver_cookie.name
        /\ c.value = driver_cookie.value
        /\ (IF c.domain # <<>> /\ Head(c.domain) = "." THEN Tail(c.domain) ELSE c.domain)
               = (IF driver_cookie.domain # <<>> /\ Head(driver_cookie.domain) = "."
                  THEN Tail(driver_cookie.domain) ELSE driver_cookie.domain)

\* DriverMixin.is_cookie_in_driver(cookie), got being self.get_cookies().
is_cookie_in_driver(c, got) ==
    \E driver_cookie \in got :
        /\ c.name = driver_cookie.name
        /\ c.value = driver_cookie.value
        /\ \/ c.domain = driver_cookie.domain
           \/ <<".">> \o c.domain = driver_cookie.domain

----------------------------------------------------------------------------
(* Cookie Bridge, browser side: DriverMixin.ensure_add_cookie.             *)

PushOp == "transfer_session_cookies_to_driver"
\* The operation an ensure_add_cookie call belongs to.
OpOf(who) == IF who = "push" THEN PushOp ELSE "ensure_add_cookie"

\* The events of a trace: the entry, with the cookie after the override and
\* the browser's URL at that time; a get(url); an add_cookie(cookie).
TraceEnter(url, c) == [ev |-> "enter", url |-> url, cookie |-> c]
TraceGet(url) == [ev |-> "get", url |-> url, cookie |-> NoCookie]
TraceAdd(c) == [ev |-> "add_cookie", url |-> <<>>, cookie |-> c]

\* cookie['domain'] if cookie['domain'][0] != '.' else cookie['domain'][1:]
cookie_domain(c) == IF Head(c.domain) # "." THEN c.domain ELSE Tail(c.domain)

\* MustNavigate with the test dropped: the browser is always sent to the domain.
MustNavigateAlways(c) == TRUE

\* if cookie_domain not in browser_domain
MustNavigate(c) == ~IsSubstring(cookie_domain(c), fqdn(current_url))

\* Where the browser may end up after get(url): at the URL, or where the
\* site redirects ("s.c" sends its visitors to "w.s.c").
Landings(url) ==
    {url \o <<"/">>}
    \cup (IF Netloc(url) = Site THEN {HttpUrl(WwwSite) \o <<"/">>} ELSE {})

\* What add_cookie may do: raise, or leave one of the stores above.
BrowserAdd(store, c) ==
    {[raised |-> FALSE, store |-> st] : st \in AddCookieStores(store, c)}
    \cup {[raised |-> TRUE, store |-> store]}

\* ensure_add_cookie(cookie, override_domain) up to its first browser call,
\* as called by who ("push": the transfer loop, "user": the caller's code).
EnsureAddCookieEnter(c, override_domain, who) ==
    LET given == IF ~Falsy(override_domain)
                 THEN [c EXCEPT !.domain = override_domain]
                 ELSE c
    IN /\ cookie' = given
       /\ caller' = who
       /\ trace' = <<TraceEnter(current_url, given)>>
       /\ IF given.domain = <<>>
          THEN Raise(OpOf(who), Exc("IndexError", "string index out of range", ""))
          ELSE /\ pc' = IF MustNavigate(given) THEN "eac_get" ELSE "eac_add"
               /\ op' = OpOf(who)
               /\ exc' = NoExc

\* ensure_add_cookie returns, having made the browser calls made: to the
\* transfer loop, which drops the dict and goes on, or to the caller's code.
EnsureAddCookieReturn(made) ==
    IF caller = "push"
    THEN /\ todo' = Tail(todo)
         /\ cookie' = NoCookie
         /\ trace' = <<>>
         /\ IF Tail(todo) = <<>>
            THEN Return(PushOp)
            ELSE pc' = "push_loop" /\ op' = PushOp /\ exc' = NoExc
    ELSE /\ Return("ensure_add_cookie")
         /\ trace' = made
         /\ UNCHANGED <<todo, cookie>>

\* self.get('http://' + cookie_domain)
navigate(ok, landed) ==
    /\ pc = "eac_get"
    /\ trace' = Append(trace, TraceGet(HttpUrl(cookie_domain(cookie))))
    /\ IF ok
       THEN /\ landed \in Landings(HttpUrl(cookie_domain(cookie)))
            /\ current_url' = landed
            /\ pc' = "eac_add"
            /\ UNCHANGED <<op, exc>>
       ELSE /\ landed = current_url
            /\ UNCHANGED current_url
            /\ Raise(OpOf(caller), Exc("WebDriverException", "", "get"))
    /\ UNCHANGED <<default_timeout, driver_cookies, navigator>>
    /\ UNCHANGED <<domain_arg, domain, todo, cookie, caller, calls>>
    /\ UNCHANGED <<sessionVars, historyVars, waitVars, proxyVars, responseVars>>

\* add_cookie with the dict being the jar's own entry: the widening of the
\* transfer's dict shows in the jar.
add_cookie_shared(r) ==
    /\ pc = "eac_add"
    /\ r \in BrowserAdd(driver_cookies, cookie)
    /\ driver_cookies' = r.store
    /\ IF r.raised
       THEN /\ Raise(OpOf(caller), Exc("WebDriverException", "", "add_cookie"))
            /\ trace' = Append(trace, TraceAdd(cookie))
            /\ UNCHANGED <<cookie, todo, cookies>>
       ELSE IF is_cookie_in_driver(cookie, r.store)
       THEN EnsureAddCookieReturn(Append(trace, TraceAdd(cookie))) /\ UNCHANGED cookies
       ELSE /\ cookie' = [cookie EXCEPT !.domain = registered_domain(cookie.domain)]
            /\ cookies' = IF caller = "push"
                          THEN (cookies \ {Head(todo)})
                                   \cup {[Head(todo) EXCEPT
                                              !.domain = registered_domain(cookie.domain)]}
                          ELSE cookies
            /\ trace' = Append(trace, TraceAdd(cookie))
            /\ pc' = "eac_retry"
            /\ UNCHANGED <<op, exc, todo>>
    /\ UNCHANGED <<default_timeout, current_url, navigator>>
    /\ UNCHANGED <<domain_arg, domain, caller, calls>>
    /\ UNCHANGED <<browser, _driver_initializer, _driver, _last_requests_url, user_agent, headers>>
    /\ UNCHANGED <<historyVars, waitVars, proxyVars, responseVars>>

\* self.add_cookie(cookie); if not self.is_cookie_in_driver(cookie): widen.
add_cookie(r) ==
    /\ pc = "eac_add"
    /\ r \in BrowserAdd(driver_cookies, cookie)
    /\ driver_cookies' = r.store
    /\ IF r.raised
       THEN /\ Raise(OpOf(caller), Exc("WebDriverException", "", "add_cookie"))
            /\ trace' = Append(trace, TraceAdd(cookie))
            /\ UNCHANGED <<cookie, todo>>
       ELSE IF is_cookie_in_driver(cookie, r.store)
       THEN EnsureAddCookieReturn(Append(trace, TraceAdd(cookie)))
       ELSE /\ cookie' = [cookie EXCEPT !.domain = registered_domain(cookie.domain)]
            /\ trace' = Append(trace, TraceAdd(cookie))
            /\ pc' = "eac_retry"
            /\ UNCHANGED <<op, exc, todo>>
    /\ UNCHANGED <<default_timeout, current_url, navigator>>
    /\ UNCHANGED <<domain_arg, domain, caller, calls>>
    /\ UNCHANGED <<sessionVars, historyVars, waitVars, proxyVars, responseVars>>

\* retry_add_cookie that tries again instead of raising.
retry_add_cookie_again(r) ==
    /\ pc = "eac_retry"
    /\ r \in BrowserAdd(driver_cookies, cookie)
    /\ driver_cookies' = r.store
    /\ Len(trace) < 6
    /\ IF r.raised
       THEN /\ Raise(OpOf(caller), Exc("WebDriverException", "", "add_cookie"))
            /\ trace' = Append(trace, TraceAdd(cookie))
            /\ UNCHANGED <<todo, cookie>>
       ELSE IF is_cookie_in_driver(cookie, r.store)
       THEN EnsureAddCookieReturn(Append(trace, TraceAdd(cookie)))
       ELSE /\ trace' = Append(trace, TraceAdd(cookie))
            /\ UNCHANGED <<pc, op, exc, todo, cookie>>
    /\ UNCHANGED <<default_timeout, current_url, navigator>>
    /\ UNCHANGED <<domain_arg, domain, caller, calls>>
    /\ UNCHANGED <<sessionVars, historyVars, waitVars, proxyVars, responseVars>>

\* retry_add_cookie that returns when the check fails, as if the cookie
\* were there.
retry_add_cookie_quiet(r) ==
    /\ pc = "eac_retry"
    /\ r \in BrowserAdd(driver_cookies, cookie)
    /\ driver_cookies' = r.store
    /\ IF r.raised
       THEN /\ Raise(OpOf(caller), Exc("WebDriverException", "", "add_cookie"))
            /\ trace' = Append(trace, TraceAdd(cookie))
            /\ UNCHANGED <<todo, cookie>>
       ELSE EnsureAddCookieReturn(Append(trace, TraceAdd(cookie)))
    /\ UNCHANGED <<default_timeout, current_url, navigator>>
    /\ UNCHANGED <<domain_arg, domain, caller, calls>>
    /\ UNCHANGED <<sessionVars, historyVars, waitVars, proxyVars, responseVars>>

\* The second self.add_cookie(cookie), with the widened domain, and the
\* check that ends ensure_add_cookie.
retry_add_cookie(r) ==
    /\ pc = "eac_retry"
    /\ r \in BrowserAdd(driver_cookies, cookie)
    /\ driver_cookies' = r.store
    /\ IF r.raised
       THEN /\ Raise(OpOf(caller), Exc("WebDriverException", "", "add_cookie"))
            /\ trace' = Append(trace, TraceAdd(cookie))
            /\ UNCHANGED <<todo, cookie>>
       ELSE IF is_cookie_in_driver(cookie, r.store)
       THEN EnsureAddCookieReturn(Append(trace, TraceAdd(cookie)))
       ELSE /\ Raise(OpOf(caller),
                     Exc("WebDriverException", "Couldn't add the following cookie to the webdriver",
                         cookie.name))
            /\ trace' = Append(trace, TraceAdd(cookie))
            /\ UNCHANGED <<todo, cookie>>
    /\ UNCHANGED <<default_timeout, current_url, navigator>>
    /\ UNCHANGED <<domain_arg, domain, caller, calls>>
    /\ UNCHANGED <<sessionVars, historyVars, waitVars, proxyVars, responseVars>>

\* driver.ensure_add_cookie(cookie, override_domain), called on an existing driver.
ensure_add_cookie(c, override_domain) ==
    /\ pc = "ready"
    /\ _driver # 0
    /\ EnsureAddCookieEnter(c, override_domain, "user")
    /\ calls' = <<>>
    /\ domain_arg' = None
    /\ domain' = None
    /\ todo' = <<>>
    /\ UNCHANGED <<sessionVars, driverVars, historyVars, waitVars, proxyVars, responseVars>>

----------------------------------------------------------------------------
(* Unified Session: construction, the lazy driver, the HTTP verbs.         *)

BrowserArgs == {"chrome", "firefox", "edge"}

\* Proxy endpoints in host:port form, and the proxy entry of a capabilities
\* dict: absent, or what Proxy.add_to_capabilities writes for a manual proxy.
ProxyA == <<"127.0.0.1:8123">>
ProxyB == <<"127.0.0.1:8124">>
NoProxy == [proxyType |-> "", httpProxy |-> None, sslProxy |-> None]
ManualProxy(http, ssl) == [proxyType |-> "MANUAL", httpProxy |-> http, sslProxy |-> ssl]
\* webdriver.DesiredCapabilities as selenium ships it: no proxy entry.
Pristine == [k \in {"FIREFOX", "CHROME"} |-> NoProxy]
\* r_agent.random_agent('desktop', 'windows'), the default header of requests,
\* and what Chrome reports when nothing overrides its user agent.
RandomAgent == "Mozilla/5.0 (Windows NT 10.0) random desktop agent"
RequestsAgent == "python-requests"
ChromeAgent == "Mozilla/5.0 Chrome"

\* Session.__init__ without the check of browser: any other value is taken
\* for firefox.
Session__init__Unchecked(b, timeout, http, ssl) ==
    /\ _desired_capabilities = None
    /\ _driver = 0
    /\ browser = b
    /\ default_timeout = timeout
    /\ http_proxy = http
    /\ ssl_proxy = ssl
    /\ user_agent = RandomAgent
    /\ headers = RequestsAgent
    /\ cookies = {}
    /\ _last_requests_url = Unset
    /\ op = "__init__"
    /\ exc = NoExc
    /\ pc = "ready"
    /\ _driver_initializer =
           IF b = "chrome" THEN "_start_chromedriver" ELSE "_start_geckodriver"

\* The state Session.__init__(browser, default_timeout, http_proxy, ssl_proxy)
\* leaves: the fields it assigns, and for an unsupported browser the
\* ValueError it raises.
Session__init__(b, timeout, http, ssl) ==
    /\ _desired_capabilities = None
    /\ _driver = 0
    /\ browser = b
    /\ default_timeout = timeout
    /\ http_proxy = http
    /\ ssl_proxy = ssl
    /\ user_agent = RandomAgent
    /\ headers = RequestsAgent
    /\ cookies = {}
    /\ _last_requests_url = Unset
    /\ op = "__init__"
    /\ IF b \notin {"chrome", "firefox"}
       THEN /\ exc = Exc("ValueError", "Invalid Argument: browser must be chrome or firefox", b)
            /\ pc = "failed"
            /\ _driver_initializer = "<unset>"
       ELSE /\ exc = NoExc
            /\ pc = "ready"
            /\ _driver_initializer =
                   IF b = "chrome" THEN "_start_chromedriver" ELSE "_start_geckodriver"

\* No browser process yet, no operation made yet.
NothingStarted ==
    /\ current_url = BlankUrl
    /\ driver_cookies = {}
    /\ navigator = ""
    /\ started = 0
    /\ accessed = FALSE
    /\ returned = 0
    /\ last_response = Unset
    /\ copy_arg = TRUE
    /\ DesiredCapabilities = Pristine
    /\ capabilities = NoProxy
    /\ _selector = Unset
    /\ parses = 0
    /\ queries = 0
    /\ domain_arg = None
    /\ domain = None
    /\ todo = <<>>
    /\ cookie = NoCookie
    /\ caller = "user"
    /\ trace = <<>>
    /\ calls = <<>>
    /\ wait = NoWait
    /\ polls = 0
    /\ element = NoElement
    /\ clicks = <<>>
    /\ last_error = ""
    /\ exception_message = ""

\* The user agent of the browser each initializer starts: _start_geckodriver
\* sets general.useragent.override, _start_chromedriver passes no user agent.
_start_chromedriver == ChromeAgent
_start_geckodriver == user_agent

DriverResults == {"existing", "started", "failed"}

\* Both endpoints are set: self.http_proxy and self.ssl_proxy
Configured == ~Falsy(http_proxy) /\ ~Falsy(ssl_proxy)
\* webdriver.DesiredCapabilities.FIREFOX if self.browser == 'firefox' else .CHROME
CapsKey == IF browser = "firefox" THEN "FIREFOX" ELSE "CHROME"

\* The desired_capabilities property: with both endpoints set and nothing
\* cached, the proxy is written into selenium's own dict of the browser, and
\* that dict is what _desired_capabilities refers to from then on.
desired_capabilities ==
    IF Configured /\ _desired_capabilities = None
    THEN /\ DesiredCapabilities' =
                [DesiredCapabilities EXCEPT ![CapsKey] = ManualProxy(http_proxy, ssl_proxy)]
         /\ _desired_capabilities' = <<CapsKey>>
    ELSE UNCHANGED <<DesiredCapabilities, _desired_capabilities>>

\* DriverMixin.__init__ deletes desired_capabilities from the arguments, so
\* the engine is built from its defaults: a copy of selenium's dict of the
\* browser as it is at that time.
DriverMixin__init__ == capabilities' = DesiredCapabilities'[CapsKey]

\* The driver property without its  if self._driver is None : every access
\* runs the initializer.
driver_renewed(r) ==
    /\ accessed' = TRUE
    /\ \/ /\ r = "started"
          /\ _driver' = started + 1
          /\ started' = started + 1
          /\ returned' = started + 1
          /\ navigator' = user_agent
          /\ desired_capabilities
          /\ DriverMixin__init__
          /\ UNCHANGED <<http_proxy, ssl_proxy>>
       \/ /\ r = "failed"
          /\ returned' = 0
          /\ desired_capabilities
          /\ UNCHANGED <<_driver, started, navigator, capabilities, http_proxy, ssl_proxy>>

\* The driver property: r is "existing" when _driver is set, else "started"
\* (the initializer returned a new instance) or "failed" (it raised: the
\* engine's constructor, or FirefoxProfile before the capabilities were read).
driver(r) ==
    /\ accessed' = TRUE
    /\ IF _driver # 0
       THEN /\ r = "existing"
            /\ returned' = _driver
            /\ UNCHANGED <<_driver, started, navigator, proxyVars>>
       ELSE \/ /\ r = "started"
               /\ _driver' = started + 1
               /\ started' = started + 1
               /\ returned' = started + 1
               /\ navigator' = IF _driver_initializer = "_start_chromedriver"
                               THEN _start_chromedriver
                               ELSE _start_geckodriver
               /\ desired_capabilities
               /\ DriverMixin__init__
               /\ UNCHANGED <<http_proxy, ssl_proxy>>
            \/ /\ r = "failed"
               /\ returned' = 0
               /\ \/ desired_capabilities
                  \/ /\ _driver_initializer = "_start_geckodriver"
                     /\ UNCHANGED <<DesiredCapabilities, _desired_capabilities>>
               /\ UNCHANGED <<_driver, started, navigator, capabilities, http_proxy, ssl_proxy>>

\* Cookies a response may set: none, or one of JarCookies.
NoSetCookie == {<<>>}
SetCookies == NoSetCookie \cup {<<c>> : c \in JarCookies}

\* requests.Session.request as every verb reaches it: the response's cookies
\* go to the jar; ok is FALSE when the call raises.
super_request(ok, set) ==
    /\ ok \/ set = <<>>
    /\ cookies' = IF set = <<>> THEN cookies ELSE JarSet(cookies, set[1])
    /\ Cardinality(cookies') <= MaxJar

\* ReqSeleniumResponse(resp): the wrapper starts without a selector.
ReqSeleniumResponse__init__ == _selector' = None /\ parses' = 0 /\ queries' = 0

\* What every HTTP verb leaves alone.
HttpFrame ==
    /\ UNCHANGED <<browser, _driver_initializer, _driver, user_agent, headers>>
    /\ UNCHANGED <<driverVars, bridgeVars, waitVars, proxyVars>>
    /\ UNCHANGED <<started, accessed, returned, copy_arg>>

\* Session.get that also loads the response's URL in a running browser.
get_in_browser(ok, url, set) ==
    /\ pc = "ready"
    /\ super_request(ok, set)
    /\ IF ok
       THEN /\ _last_requests_url' = url
            /\ last_response' = url
            /\ current_url' = IF _driver # 0 THEN HttpUrl(Netloc(url)) \o <<"/">> ELSE current_url
            /\ ReqSeleniumResponse__init__
            /\ Return("get")
       ELSE /\ UNCHANGED <<_last_requests_url, last_response, current_url, responseVars>>
            /\ Raise("get", Exc("ConnectionError", "", ""))
    /\ UNCHANGED <<browser, _driver_initializer, _driver, user_agent, headers>>
    /\ UNCHANGED <<default_timeout, driver_cookies, navigator>>
    /\ UNCHANGED <<bridgeVars, waitVars, proxyVars>>
    /\ UNCHANGED <<started, accessed, returned, copy_arg>>

\* Session.get: resp = super().get(...); self._last_requests_url = resp.url
get(ok, url, set) ==
    /\ pc = "ready"
    /\ super_request(ok, set)
    /\ IF ok
       THEN /\ _last_requests_url' = url
            /\ last_response' = url
            /\ ReqSeleniumResponse__init__
            /\ Return("get")
       ELSE /\ UNCHANGED <<_last_requests_url, last_response, responseVars>>
            /\ Raise("get", Exc("ConnectionError", "", ""))
    /\ HttpFrame

\* Session.post
post(ok, url, set) ==
    /\ pc = "ready"
    /\ super_request(ok, set)
    /\ IF ok
       THEN /\ _last_requests_url' = url
            /\ last_response' = url
            /\ ReqSeleniumResponse__init__
            /\ Return("post")
       ELSE /\ UNCHANGED <<_last_requests_url, last_response, responseVars>>
            /\ Raise("post", Exc("ConnectionError", "", ""))
    /\ HttpFrame

\* Session.put as requests.Session has it: the URL is not recorded.
put_not_recorded(ok, url, set) ==
    /\ pc = "ready"
    /\ super_request(ok, set)
    /\ UNCHANGED _last_requests_url
    /\ IF ok
       THEN /\ last_response' = url
            /\ ReqSeleniumResponse__init__
            /\ Return("put")
       ELSE /\ UNCHANGED <<last_response, responseVars>>
            /\ Raise("put", Exc("ConnectionError", "", ""))
    /\ HttpFrame

\* Session.put
put(ok, url, set) ==
    /\ pc = "ready"
    /\ super_request(ok, set)
    /\ IF ok
       THEN /\ _last_requests_url' = url
            /\ last_response' = url
            /\ ReqSeleniumResponse__init__
            /\ Return("put")
       ELSE /\ UNCHANGED <<_last_requests_url, last_response, responseVars>>
            /\ Raise("put", Exc("ConnectionError", "", ""))
    /\ HttpFrame

\* The verbs Session does not override: requests.Session's own methods,
\* which return the response unwrapped.
InheritedVerbs == {"delete", "head", "patch"}
inherited(verb, ok, url, set) ==
    /\ pc = "ready"
    /\ super_request(ok, set)
    /\ UNCHANGED _last_requests_url
    /\ IF ok
       THEN /\ last_response' = url
            /\ Return(verb)
       ELSE /\ UNCHANGED last_response
            /\ Raise(verb, Exc("ConnectionError", "", ""))
    /\ UNCHANGED responseVars
    /\ HttpFrame

----------------------------------------------------------------------------
(* ReqSeleniumResponse: the query methods of a wrapped response.           *)

\* The selector property without its cache, as DriverMixin.selector is.
selector_reparsed ==
    /\ _selector' = <<"Selector">>
    /\ parses' = parses + 1

\* The selector property: Selector(text=self._response.text) when no selector
\* is kept, and the selector kept otherwise.
selector ==
    IF _selector = None
    THEN /\ _selector' = <<"Selector">>
         /\ parses' = parses + 1
    ELSE UNCHANGED <<_selector, parses>>

QueryMethods == {"xpath", "css", "re", "re_first"}
\* response.xpath / css / re / re_first: self.selector, then the query on it,
\* which raises for a query it cannot evaluate.
query(method, ok) ==
    /\ pc = "ready"
    /\ _selector # Unset
    /\ queries < MaxQueries
    /\ queries' = queries + 1
    /\ selector
    /\ IF ok THEN Return(method) ELSE Raise(method, Exc("ValueError", "", method))
    /\ UNCHANGED <<sessionVars, driverVars, bridgeVars, historyVars, waitVars, proxyVars>>

----------------------------------------------------------------------------
(* Cookie Bridge, session side.                                            *)

\* Lines 74-78: the domain the transfer is scoped to, or the exception.
\* Reading an attribute that was never assigned raises AttributeError.
ResolveDomain(dom) ==
    IF ~Falsy(dom)
    THEN [exc |-> NoExc, domain |-> dom]
    ELSE IF _last_requests_url = Unset
    THEN [exc |-> Exc("AttributeError", "'Session' object has no attribute", "_last_requests_url"),
          domain |-> dom]
    ELSE IF ~Falsy(_last_requests_url)
    THEN [exc |-> NoExc, domain |-> registered_domain(_last_requests_url)]
    ELSE [exc |-> Exc("Exception", "Trying to transfer cookies to selenium without specifying a domain and without having visited any page in the current session", ""),
          domain |-> dom]

\* Matching with the operands of  in  exchanged.
MatchingReversed(dom) == {c \in cookies : IsSubstring(c.domain, dom)}

\* [c for c in self.cookies if domain in c.domain], as a set
Matching(dom) == {c \in cookies : IsSubstring(dom, c.domain)}

\* The domain arguments tried: none, the empty string, and two domains; with
\* cookies in the jar, none and one domain.
DomainArgs == {None, <<>>, Site, NotSite}
BridgeDomainArgs == {None, Site}

\* transfer_session_cookies_to_driver(domain), up to its loop.
transfer_session_cookies_to_driver(dom) ==
    /\ pc = "ready"
    /\ domain_arg' = dom
    /\ calls' = <<>>
    /\ trace' = <<>>
    /\ cookie' = NoCookie
    /\ caller' = "push"
    /\ LET res == ResolveDomain(dom)
       IN IF res.exc # NoExc
          THEN /\ Raise(PushOp, res.exc)
               /\ domain' = dom
               /\ todo' = <<>>
          ELSE /\ domain' = res.domain
               /\ todo' \in Listings(Matching(res.domain))
               /\ IF Matching(res.domain) = {}
                  THEN Return(PushOp)
                  ELSE pc' = "push_loop" /\ op' = PushOp /\ exc' = NoExc
    /\ UNCHANGED <<sessionVars, driverVars, historyVars, waitVars, proxyVars, responseVars>>

\* One pass of the loop: self.driver.ensure_add_cookie({...}) for the next
\* matching cookie, up to the first browser call of ensure_add_cookie.
push_cookie(r) ==
    /\ pc = "push_loop"
    /\ driver(r)
    /\ IF r = "failed"
       THEN /\ Raise(PushOp, Exc("WebDriverException", "", "driver"))
            /\ UNCHANGED <<cookie, caller, trace, calls>>
       ELSE /\ calls' = Append(calls, CookieDict(Head(todo)))
            /\ EnsureAddCookieEnter(CookieDict(Head(todo)), None, "push")
    /\ UNCHANGED <<domain_arg, domain, todo, last_response, copy_arg>>
    /\ UNCHANGED <<browser, _driver_initializer, _last_requests_url, cookies, user_agent, headers>>
    /\ UNCHANGED <<default_timeout, current_url, driver_cookies>>
    /\ UNCHANGED <<waitVars, responseVars>>

\* for cookie in got: self.cookies.set(cookie['name'], cookie['value'], domain=cookie['domain'])
\* in the order of the listing got; the cookie's path is not passed on.
RECURSIVE SetAll(_, _)
SetAll(jar, got) ==
    IF got = <<>>
    THEN jar
    ELSE SetAll(JarSet(jar, JarCookie(Head(got).name, Head(got).value, Head(got).domain)),
                Tail(got))

\* What the browser-facing part of an operation left alone.
BrowserFrame ==
    /\ UNCHANGED <<browser, _driver_initializer, _last_requests_url, user_agent>>
    /\ UNCHANGED <<default_timeout, current_url, driver_cookies>>
    /\ UNCHANGED <<bridgeVars, waitVars, last_response, responseVars>>

\* copy_user_agent_from_driver(): execute_script on self.driver, then the header.
copy_user_agent_from_driver(r, scripted) ==
    /\ pc = "ready"
    /\ driver(r)
    /\ IF r = "failed"
       THEN /\ Raise("copy_user_agent_from_driver", Exc("WebDriverException", "", "driver"))
            /\ UNCHANGED headers
       ELSE IF ~scripted
       THEN /\ Raise("copy_user_agent_from_driver", Exc("WebDriverException", "", "script"))
            /\ UNCHANGED headers
       ELSE /\ headers' = navigator'
            /\ Return("copy_user_agent_from_driver")
    /\ UNCHANGED <<cookies, copy_arg>>
    /\ BrowserFrame

PullOp == "transfer_driver_cookies_to_session"
\* transfer_driver_cookies_to_session(copy_user_agent): r is the outcome of
\* the first self.driver, scripted that of execute_script, listed that of
\* get_cookies() and got the list it returns.
transfer_driver_cookies_to_session(copy_user_agent, r, scripted, listed, got) ==
    /\ pc = "ready"
    /\ copy_arg' = copy_user_agent
    /\ got \in Listings(driver_cookies)
    /\ driver(r)
    /\ IF r = "failed"
       THEN /\ Raise(PullOp, Exc("WebDriverException", "", "driver"))
            /\ UNCHANGED <<headers, cookies>>
       ELSE IF copy_user_agent /\ ~scripted
       THEN /\ Raise(PullOp, Exc("WebDriverException", "", "script"))
            /\ UNCHANGED <<headers, cookies>>
       ELSE /\ headers' = IF copy_user_agent THEN navigator' ELSE headers
            /\ IF ~listed
               THEN /\ Raise(PullOp, Exc("WebDriverException", "", "get_cookies"))
                    /\ UNCHANGED cookies
               ELSE /\ cookies' = SetAll(cookies, got)
                    /\ Cardinality(cookies') <= MaxJar
                    /\ Return(PullOp)
    /\ BrowserFrame

\* The caller's own use of the driver: session.driver.get(url).
driver_get(r, ok, url, landed) ==
    /\ pc = "ready"
    /\ driver(r)
    /\ IF r = "failed"
       THEN /\ Raise("driver.get", Exc("WebDriverException", "", "driver"))
            /\ UNCHANGED current_url
       ELSE IF ~ok
       THEN /\ Raise("driver.get", Exc("WebDriverException", "", "get"))
            /\ UNCHANGED current_url
       ELSE /\ landed \in Landings(url)
            /\ current_url' = landed
            /\ Return("driver.get")
    /\ UNCHANGED <<browser, _driver_initializer, _last_requests_url, cookies, user_agent, headers>>
    /\ UNCHANGED <<default_timeout, driver_cookies>>
    /\ UNCHANGED <<bridgeVars, waitVars, last_response, copy_arg, responseVars>>

\* The caller's own evaluation of session.driver, and nothing more.
session_driver(r) ==
    /\ pc = "ready"
    /\ driver(r)
    /\ IF r = "failed"
       THEN Raise("driver", Exc("WebDriverException", "", "driver"))
       ELSE Return("driver")
    /\ UNCHANGED <<browser, _driver_initializer, _last_requests_url, cookies, user_agent, headers>>
    /\ UNCHANGED <<default_timeout, current_url, driver_cookies>>
    /\ UNCHANGED <<bridgeVars, waitVars, last_response, copy_arg, responseVars>>

\* The caller's own reading of session.desired_capabilities.
session_desired_capabilities ==
    /\ pc = "ready"
    /\ desired_capabilities
    /\ Return("desired_capabilities")
    /\ UNCHANGED <<http_proxy, ssl_proxy, capabilities>>
    /\ UNCHANGED <<sessionVars, driverVars, bridgeVars, historyVars, waitVars, responseVars>>

OtherOp == "other.driver"
\* Another Session of the same process, constructed as Session(b, http_proxy=http,
\* ssl_proxy=ssl), starts its driver: its own fields and its browser are its
\* own; its desired_capabilities writes to selenium's dict of browser b.
other_session(b, http, ssl) ==
    /\ pc = "ready"
    /\ DesiredCapabilities' =
           IF ~Falsy(http) /\ ~Falsy(ssl)
           THEN [DesiredCapabilities EXCEPT
                    ![IF b = "firefox" THEN "FIREFOX" ELSE "CHROME"] = ManualProxy(http, ssl)]
           ELSE DesiredCapabilities
    /\ Return(OtherOp)
    /\ UNCHANGED <<http_proxy, ssl_proxy, _desired_capabilities, capabilities>>
    /\ UNCHANGED <<sessionVars, driverVars, bridgeVars, historyVars, waitVars, responseVars>>

----------------------------------------------------------------------------
(* Specifications.                                                         *)

\* The URLs the browser can be at.
BrowserUrls ==
    {BlankUrl} \cup {HttpUrl(h) \o <<"/">> : h \in {Site, WwwSite, NotSite}}
\* The URLs the caller sends the browser to.
VisitUrls == {HttpUrl(WwwSite)}

\* A Session just constructed, for any browser argument.
Init == \E b \in BrowserArgs : Session__init__(b, MaxTimeout, None, None) /\ NothingStarted

\* Session(): a Session constructed with the default browser argument.
DefaultBrowser == "firefox"
InitDefault == Session__init__(DefaultBrowser, MaxTimeout, None, None) /\ NothingStarted

BridgeSteps ==
    \/ \E ok \in BOOLEAN, landed \in BrowserUrls : navigate(ok, landed)
    \/ \E r \in BrowserAdd(driver_cookies, cookie) : add_cookie(r)
    \/ \E r \in BrowserAdd(driver_cookies, cookie) : retry_add_cookie(r)

\* Every HTTP verb, with responses that set no cookie; the browser is used
\* directly, and the transfer to the driver finds an empty jar.
NextHttp ==
    \/ \E ok \in BOOLEAN, url \in ResponseUrls, set \in NoSetCookie : get(ok, url, set)
    \/ \E ok \in BOOLEAN, url \in ResponseUrls, set \in NoSetCookie : post(ok, url, set)
    \/ \E ok \in BOOLEAN, url \in ResponseUrls, set \in NoSetCookie : put(ok, url, set)
    \/ \E verb \in InheritedVerbs, ok \in BOOLEAN, url \in ResponseUrls, set \in NoSetCookie :
           inherited(verb, ok, url, set)
    \/ \E r \in DriverResults : session_driver(r)
    \/ \E r \in DriverResults, ok \in BOOLEAN, url \in VisitUrls, landed \in BrowserUrls :
           driver_get(r, ok, url, landed)
    \/ \E dom \in DomainArgs : transfer_session_cookies_to_driver(dom)
    \/ \E r \in DriverResults, scripted \in BOOLEAN : copy_user_agent_from_driver(r, scripted)

SpecHttp == Init /\ [][NextHttp]_vars

\* The session and its cookie bridge: responses set cookies, which are
\* pushed to the browser and pulled back.
Next ==
    \/ \E ok \in BOOLEAN, url \in ResponseUrls, set \in SetCookies : get(ok, url, set)
    \/ \E ok \in BOOLEAN, url \in ResponseUrls, set \in SetCookies : post(ok, url, set)
    \/ \E ok \in BOOLEAN, url \in ResponseUrls, set \in SetCookies : put(ok, url, set)
    \/ \E r \in DriverResults : session_driver(r)
    \/ \E dom \in BridgeDomainArgs : transfer_session_cookies_to_driver(dom)
    \/ \E r \in DriverResults : push_cookie(r)
    \/ BridgeSteps
    \/ \E r \in DriverResults, scripted, listed \in BOOLEAN :
           \E got \in Listings(driver_cookies) :
               transfer_driver_cookies_to_session(TRUE, r, scripted, listed, got)

Spec == InitDefault /\ [][Next]_vars

\* The cookie bridge with two cookies of one name and domain that differ in
\* value and path.
SyncCookies == {ServerCookie("a", "1", WwwSite, "/"), ServerCookie("a", "2", WwwSite, "/p")}
SyncUrls == {HttpUrl(WwwSite) \o <<"/", "p">>}

NextSync ==
    \/ \E ok \in BOOLEAN, url \in SyncUrls, set \in {<<c>> : c \in SyncCookies} :
           get(ok, url, set)
    \/ transfer_session_cookies_to_driver(None)
    \/ \E r \in DriverResults : push_cookie(r)
    \/ BridgeSteps
    \/ \E copy \in BOOLEAN, r \in DriverResults, scripted, listed \in BOOLEAN :
           \E got \in Listings(driver_cookies) :
               transfer_driver_cookies_to_session(copy, r, scripted, listed, got)

SpecSync == InitDefault /\ [][NextSync]_vars

\* Proxy configuration: a Session constructed with any combination of the two
\* endpoints, in a process where other Sessions are constructed and started.
ProxyArgs == {None, <<>>, ProxyA}
OtherProxyArgs == {None, ProxyB}
SupportedBrowsers == {"chrome", "firefox"}
InitProxy ==
    \E b \in SupportedBrowsers, http \in ProxyArgs, ssl \in ProxyArgs :
        Session__init__(b, MaxTimeout, http, ssl) /\ NothingStarted

NextProxy ==
    \/ \E r \in DriverResults : session_driver(r)
    \/ session_desired_capabilities
    \/ \E b \in SupportedBrowsers, http \in OtherProxyArgs, ssl \in OtherProxyArgs :
           other_session(b, http, ssl)

SpecProxy == InitProxy /\ [][NextProxy]_vars

\* The responses of the HTTP verbs and the queries made on the wrapped ones.
NextResponse ==
    \/ \E ok \in BOOLEAN, url \in ResponseUrls, set \in NoSetCookie : get(ok, url, set)
    \/ \E ok \in BOOLEAN, url \in ResponseUrls, set \in NoSetCookie : post(ok, url, set)
    \/ \E ok \in BOOLEAN, url \in ResponseUrls, set \in NoSetCookie : put(ok, url, set)
    \/ \E verb \in InheritedVerbs, ok \in BOOLEAN, url \in ResponseUrls, set \in NoSetCookie :
           inherited(verb, ok, url, set)
    \/ \E method \in QueryMethods, ok \in BOOLEAN : query(method, ok)

SpecResponse == InitDefault /\ [][NextResponse]_vars

\* The driver's cookie helper, called by the session's user with any cookie.
\* Every domain at the root path, and for one domain another value and
\* another path.
CookieArgs ==
    {[name |-> n, value |-> v, path |-> "/", expiry |-> "None", domain |-> d] :
         n \in Names, v \in Values, d \in CookieDomains}
    \cup {[name |-> "a", value |-> "2", path |-> "/", expiry |-> "None", domain |-> Site],
          [name |-> "a", value |-> "1", path |-> "/p", expiry |-> "None", domain |-> Site]}
OverrideArgs == {None, <<>>, Site}

NextCookie ==
    \/ \E r \in DriverResults : session_driver(r)
    \/ \E c \in CookieArgs, o \in OverrideArgs : ensure_add_cookie(c, o)
    \/ BridgeSteps

SpecCookie == Init /\ [][NextCookie]_vars

\* The driver's wait and click helpers.
InitWait ==
    \E b \in BrowserArgs, t \in 1..MaxTimeout :
        Session__init__(b, t, None, None) /\ NothingStarted

NextWait ==
    \/ \E r \in DriverResults : session_driver(r)
    \/ \E l \in LocatorArgs, st \in StateArgs, t \in 0..MaxTimeout : ensure_element(l, st, t)
    \/ \E found \in BOOLEAN : until(found)
    \/ \E scrolled \in BOOLEAN : ensure_click(scrolled)
    \/ \E result \in {"ok"} \cup ErrorMessages : click(result)

SpecWait == InitWait /\ [][NextWait]_vars

----------------------------------------------------------------------------
(* Properties.                                                             *)

MissingDomainText ==
    "Trying to transfer cookies to selenium without specifying a domain and without having visited any page in the current session"
CookieFailedText == "Couldn't add the following cookie to the webdriver"
ClickFailedText == "Couldn't click item after trying 10 times"

\* The push has ended, by a return or by a raise.
PushEnded == pc = "ready" /\ op = PushOp

\* C1: a push with no domain argument, on a Session on which no get, post or
\* put has succeeded, ends with the dedicated missing-domain exception.
C1_MissingDomainRaised ==
    (PushEnded /\ Falsy(domain_arg) /\ _last_requests_url = Unset)
        => (exc.type = "Exception" /\ exc.what = MissingDomainText)

\* The add_cookie events and the get events of the trace.
AddEvents == SelectSeq(trace, LAMBDA e : e.ev = "add_cookie")
GetEvents == SelectSeq(trace, LAMBDA e : e.ev = "get")
\* The user's ensure_add_cookie call has entered (its cookie had a domain).
InEnsureAddCookie == op = "ensure_add_cookie" /\ trace # <<>> /\ trace[1].cookie.domain # <<>>

\* C2: one ensure_add_cookie call submits the cookie to add_cookie at most
\* twice: first with the domain it entered with; a second time only after a
\* failed verification, with the registrable domain; it returns only with the
\* cookie verified, and raises the injection failure only after two adds.
C2_AtMostTwoAdds ==
    InEnsureAddCookie =>
        /\ Len(AddEvents) <= 2
        /\ Len(AddEvents) >= 1 => AddEvents[1].cookie = trace[1].cookie
        /\ Len(AddEvents) = 2 =>
               /\ pc = "ready"
               /\ AddEvents[2].cookie.domain = registered_domain(trace[1].cookie.domain)
               /\ AddEvents[2].cookie.name = trace[1].cookie.name
               /\ AddEvents[2].cookie.value = trace[1].cookie.value
        /\ pc = "eac_retry" =>
               /\ Len(AddEvents) = 1
               /\ ~is_cookie_in_driver(trace[1].cookie, driver_cookies)
        /\ (pc = "ready" /\ exc = NoExc) =>
               /\ Len(AddEvents) \in {1, 2}
               /\ is_cookie_in_driver(cookie, driver_cookies)
        /\ (pc = "ready" /\ exc.what = CookieFailedText) =>
               /\ Len(AddEvents) = 2
               /\ ~is_cookie_in_driver(cookie, driver_cookies)
        /\ (pc = "ready" /\ Len(AddEvents) = 2 /\ exc.msg # "add_cookie") =>
               (exc = NoExc \/ exc.what = CookieFailedText)

\* C2 witness: the retry with the widened domain was made and failed too.
C2_Witness ==
    /\ InEnsureAddCookie
    /\ pc = "ready"
    /\ exc.what = CookieFailedText
    /\ Len(AddEvents) = 2
    /\ AddEvents[1].cookie.domain = WwwSite
    /\ AddEvents[2].cookie.domain = Site

\* A cookie domain without its leading ".".
Normalized(d) == IF d[1] = "." THEN SubSeq(d, 2, Len(d)) ELSE d
\* The call entered with a cookie whose normalized domain is not a substring
\* of the domain the browser was at.
EnteredOffDomain ==
    ~IsSubstring(Normalized(trace[1].cookie.domain), fqdn(trace[1].url))

\* C3: ensure_add_cookie navigates exactly once, to http://<normalized
\* domain> and before the first add_cookie, when it enters off the cookie's
\* domain, and never otherwise; the retry does not navigate.
C3_OneNavigationBeforeAdd ==
    InEnsureAddCookie =>
        IF EnteredOffDomain
        THEN \/ pc = "eac_get" /\ Len(trace) = 1
             \/ /\ Len(GetEvents) = 1
                /\ trace[2] = TraceGet(HttpUrl(Normalized(trace[1].cookie.domain)))
        ELSE /\ pc # "eac_get"
             /\ GetEvents = <<>>

\* C3 witness: a navigation, then the add and the retry.
C3_Witness ==
    /\ InEnsureAddCookie
    /\ EnteredOffDomain
    /\ trace[1].cookie.domain = DotSite
    /\ Len(trace) = 4
    /\ trace[2].ev = "get"
    /\ trace[3].ev = "add_cookie"
    /\ trace[4].ev = "add_cookie"

\* The click attempts of the log, in order.
ClickEvents == SelectSeq(clicks, LAMBDA e : e.ev = "click")

\* C4: the robust click makes at most 10 click attempts; a successful
\* attempt is the last and the call returns; every failed attempt is followed
\* by the 200 ms pause; after 10 failures it raises the click failure with the
\* message of the last error.
C4_ClickRetries ==
    op = "ensure_click" =>
        /\ Len(ClickEvents) <= 10
        /\ \A i \in 1..Len(clicks) :
               /\ (clicks[i].ev = "click" /\ clicks[i].ok) =>
                      (i = Len(clicks) /\ pc = "ready" /\ exc = NoExc)
               /\ (clicks[i].ev = "click" /\ ~clicks[i].ok) =>
                      (i < Len(clicks) /\ clicks[i + 1] = [ev |-> "sleep", ok |-> FALSE, ms |-> 200])
               /\ clicks[i].ev = "sleep" => (i > 1 /\ clicks[i - 1].ev = "click")
        /\ pc = "clicking" => Len(ClickEvents) < 10
        /\ (pc = "ready" /\ exc.what = ClickFailedText) =>
               /\ Len(ClickEvents) = 10
               /\ \A i \in 1..10 : ~ClickEvents[i].ok
               /\ exc.msg = last_error
        /\ (Len(ClickEvents) = 10 /\ ~ClickEvents[10].ok) =>
               (pc = "ready" /\ exc.type = "WebDriverException" /\ exc.what = ClickFailedText)
        /\ (pc = "ready" /\ exc = NoExc) =>
               (clicks # <<>> /\ clicks[Len(clicks)].ev = "click" /\ clicks[Len(clicks)].ok)

\* C4 witness: ten failed attempts and the click failure.
C4_Witness ==
    /\ op = "ensure_click"
    /\ pc = "ready"
    /\ exc.what = ClickFailedText
    /\ exc.msg = "not interactable"
    /\ Len(clicks) = 20

\* C5: ensure_element with a state outside present, visible, clickable and
\* invisible raises ValueError at once: no poll is made, nothing is returned.
C5_InvalidStateFailsFast ==
    (op = "ensure_element" /\ wait.locator \in Locators
        /\ wait.state \notin {"present", "visible", "clickable", "invisible"})
        => /\ pc = "ready"
           /\ exc.type = "ValueError"
           /\ polls = 0
           /\ element = NoElement

\* C5 witness: the state "hidden" with a locator of the table and a timeout.
C5_Witness ==
    /\ op = "ensure_element"
    /\ wait.locator = "css_selector"
    /\ wait.state = "hidden"
    /\ wait.timeout = 1
    /\ exc.type = "ValueError"

\* C6: a Session constructed with a browser other than chrome and firefox
\* has raised ValueError in its constructor, and no driver exists or is ever
\* started for it.
C6_InvalidBrowserRejected ==
    browser \notin {"chrome", "firefox"}
        => /\ op = "__init__"
           /\ pc = "failed"
           /\ exc.type = "ValueError"
           /\ _driver = 0
           /\ started = 0
           /\ ~accessed

\* C6 witness: the Session constructed for "edge".
C6_Witness == browser = "edge" /\ op = "__init__" /\ exc.type = "ValueError"

\* C7: the driver initializer completes at most once; _driver, once set, is
\* that first instance for good, and every later evaluation of the driver
\* property returns it.
C7_OneDriver ==
    /\ started <= 1
    /\ _driver \in {0, 1}
    /\ started = 1 <=> _driver = 1
    /\ returned \in {0, _driver}

\* C7 witness: a push raised in the browser after the driver had been
\* evaluated for its second cookie, the same instance both times.
C7_Witness ==
    /\ PushEnded
    /\ exc.type = "WebDriverException"
    /\ Len(calls) = 2
    /\ started = 1
    /\ returned = 1

HttpOps == {"get", "post", "put"}
\* C8: as long as the driver property was never evaluated there is no
\* driver, and no get, post or put changes the driver, its URL or its cookies.
C8_HttpLeavesBrowser ==
    /\ [](~accessed => (_driver = 0 /\ started = 0))
    /\ [][op' \in HttpOps =>
              UNCHANGED <<_driver, started, current_url, driver_cookies, navigator>>]_vars

\* C8 witness: a get has returned while the browser holds a cookie.
C8_Witness ==
    /\ pc = "ready"
    /\ op = "get"
    /\ exc = NoExc
    /\ _driver = 1
    /\ driver_cookies # {}
    /\ current_url # BlankUrl

\* C9 as claimed: _last_requests_url is the final URL of the last successful
\* call, whichever verb made it.
C9_EveryVerbRecorded ==
    last_response # Unset => _last_requests_url = last_response

\* C9 as amended: a successful get, post or put sets _last_requests_url to
\* the final URL of its response; nothing else changes it.
C9_GetPostPutRecorded ==
    [][IF op' \in HttpOps /\ exc' = NoExc
       THEN _last_requests_url' = last_response' /\ _last_requests_url' \in ResponseUrls
       ELSE UNCHANGED _last_requests_url]_vars

\* C9 witness: a put has replaced the URL an earlier call had recorded, and
\* a delete to another URL has left it.
C9_Witness ==
    /\ pc = "ready"
    /\ op = "delete"
    /\ exc = NoExc
    /\ _last_requests_url = HttpUrl(NotSite) \o <<"/">>
    /\ last_response = HttpUrl(WwwSite) \o <<"/", "p">>

\* The dicts ensure_add_cookie is due for: one per jar cookie whose domain
\* has the scope as a substring.
DueCookies == {CookieDict(c) : c \in {x \in cookies : IsSubstring(domain, x.domain)}}

\* C10: a push called with no domain is scoped to the registrable domain of
\* _last_requests_url, one called with a domain to that domain; it calls
\* ensure_add_cookie for jar cookies that contain the scope only, never twice
\* for one, and when it returns it has called it for each of them.
C10_PushScope ==
    (op = PushOp /\ (pc # "ready" \/ exc.type \notin {"AttributeError", "Exception"})) =>
        /\ IF Falsy(domain_arg)
           THEN _last_requests_url # Unset /\ domain = registered_domain(_last_requests_url)
           ELSE domain = domain_arg
        /\ \A i \in 1..Len(calls) : calls[i] \in DueCookies
        /\ \A i, j \in 1..Len(calls) : i # j => calls[i] # calls[j]
        /\ (pc = "ready" /\ exc = NoExc) => {calls[i] : i \in 1..Len(calls)} = DueCookies

\* C10 witness: after a response from "ns.c", a push with no domain has
\* returned: of the two jar cookies it has passed on the one of "ns.c".
C10_Witness ==
    /\ PushEnded
    /\ exc = NoExc
    /\ domain_arg = None
    /\ domain = NotSite
    /\ Cardinality(cookies) = 2
    /\ Len(calls) = 1
    /\ calls[1].domain = NotSite

\* The push has returned without raising.
PushReturned == PushEnded /\ exc = NoExc
\* The transfer to the session has returned without raising.
PullReturned == pc = "ready" /\ op = PullOp /\ exc = NoExc

\* C11: when a push has returned and the next operation is a transfer to the
\* session that returns, the jar then holds, for every cookie the push passed
\* on, an entry of the same name and value whose domain is the cookie's
\* domain or that domain with one leading dot.
C11_RoundTrip ==
    [][(PushReturned /\ PullReturned') =>
           \A i \in 1..Len(calls) :
               \E x \in cookies' :
                   /\ x.name = calls[i].name
                   /\ x.value = calls[i].value
                   /\ x.domain \in {calls[i].domain, <<".">> \o calls[i].domain}]_vars

\* The jar's entries and the browser's cookies of one name and domain.
SameNameDomain(x, b) == x.name = b.name /\ x.domain = b.domain

\* C12: when the transfer to the session returns, every jar entry that has
\* the name and domain of a cookie the browser holds has that cookie's value,
\* and there is such an entry; jar entries of other names or domains are
\* kept; the user-agent header is the browser's user agent when
\* copy_user_agent is true and is unchanged when it is false.
C12_PullPostcondition ==
    [][PullReturned' =>
           /\ \A b \in driver_cookies' :
                  /\ \E x \in cookies' : SameNameDomain(x, b)
                  /\ \A x \in cookies' : SameNameDomain(x, b) => x.value = b.value
           /\ \A x \in cookies :
                  (\A b \in driver_cookies' : ~SameNameDomain(x, b)) => x \in cookies'
           /\ headers' = IF copy_arg' THEN navigator' ELSE headers]_vars

\* C13: at the step that constructs the driver, for chrome as for firefox,
\* the browser's user agent is the value of the HTTP client's user-agent
\* header.
C13_AgentsAlign ==
    [][(_driver = 0 /\ _driver' # 0) => navigator' = headers']_vars

\* C14: a driver that exists was built with the manual proxy of the
\* Session's two endpoints when both are set, and with no proxy entry when one
\* or none is set.
C14_ProxyAtConstruction ==
    _driver # 0 =>
        capabilities = IF Configured THEN ManualProxy(http_proxy, ssl_proxy) ELSE NoProxy

\* C19: what a Session reads of the state shared in the process, selenium's
\* capabilities of its browser, is as selenium ships it or as this Session
\* itself wrote it, whatever other Sessions did; so a Session without both
\* endpoints has a driver built without a proxy entry.
C19_SessionsIndependent ==
    /\ \/ DesiredCapabilities[CapsKey] = NoProxy
       \/ /\ Configured
          /\ DesiredCapabilities[CapsKey] = ManualProxy(http_proxy, ssl_proxy)
    /\ (_driver # 0 /\ ~Configured) => capabilities.proxyType # "MANUAL"

\* C15: a wrapped response has not been parsed before its first query call,
\* is parsed by that call, and is never parsed again: one parse, kept, however
\* many xpath, css, re and re_first calls follow.
C15_ParsedOnce ==
    _selector # Unset =>
        /\ parses <= 1
        /\ queries = 0 => (parses = 0 /\ _selector = None)
        /\ queries > 0 => (parses = 1 /\ _selector = <<"Selector">>)

\* C15 witness: a third query call, after calls of other methods, with the
\* one parse of the first.
C15_Witness ==
    /\ pc = "ready"
    /\ op = "re_first"
    /\ queries = 3
    /\ parses = 1

\* The browser's cookie b is an entry for cookie c: same name, same value,
\* and the domain of c, bare or behind one leading dot.
EntryFor(c, b) ==
    /\ b.name = c.name
    /\ b.value = c.value
    /\ \/ b.domain = c.domain
       \/ b.domain # <<>> /\ Head(b.domain) = "." /\ Tail(b.domain) = c.domain

\* C16: is_cookie_in_driver answers true exactly when the browser holds an
\* entry of the cookie's name and value under the cookie's domain or that
\* domain behind one leading dot, whatever the paths: ensure_add_cookie goes
\* to its retry, or raises after it, only without such an entry for the cookie
\* just added, and returns only with one.
C16_CookieInDriver ==
    InEnsureAddCookie =>
        /\ pc = "eac_retry" =>
               ~\E b \in driver_cookies : EntryFor(trace[1].cookie, b)
        /\ (pc = "ready" /\ exc = NoExc) =>
               \E b \in driver_cookies : EntryFor(cookie, b)
        /\ (pc = "ready" /\ exc.what = CookieFailedText) =>
               ~\E b \in driver_cookies : EntryFor(cookie, b)

\* C16 witness: the check has answered false for a cookie of ".s.c" while
\* the browser holds the same name and value under "s.c", at another path.
C16_Witness ==
    /\ InEnsureAddCookie
    /\ pc = "eac_retry"
    /\ trace[1].cookie.domain = DotSite
    /\ \E b \in driver_cookies :
           /\ b.name = trace[1].cookie.name
           /\ b.value = trace[1].cookie.value
           /\ b.domain = Site
           /\ b.path # trace[1].cookie.path

\* C17: a wait with a supported state ends in one of two ways. It returns:
\* for present, visible and clickable an element that carries ensure_click,
\* for invisible None, which carries nothing. Or the wait timed out: the
\* timeout exception is raised after the polls of the timeout, and nothing
\* is returned.
C17_WaitOutcome ==
    (op = "ensure_element" /\ pc = "ready"
        /\ wait.locator \in Locators
        /\ wait.state \in {"present", "visible", "clickable", "invisible"})
        => \/ /\ exc = NoExc
              /\ polls \in 1..wait.timeout
              /\ IF wait.state = "invisible"
                 THEN element.handle = "None" /\ ~element.ensure_click
                 ELSE element.handle = "element" /\ element.ensure_click
           \/ /\ exc.type = "TimeoutException"
              /\ polls = wait.timeout
              /\ element.handle = "None" /\ ~element.ensure_click

\* C17 witness: a wait for invisible that returned at its second poll.
C17_Witness ==
    /\ op = "ensure_element"
    /\ pc = "ready"
    /\ exc = NoExc
    /\ wait.state = "invisible"
    /\ wait.timeout = 2
    /\ polls = 2
    /\ element = NoElement

\* C18: no step of transfer_session_cookies_to_driver changes the jar of
\* the HTTP client, whether the transfer goes on, returns or raises: the
\* override and the widening act on the dict handed to ensure_add_cookie.
C18_PushLeavesJar ==
    [][op' = PushOp => cookies' = cookies]_vars

\* C18 witness: a push has raised the cookie failure with its dict widened
\* to "s.c", and the jar still holds the cookie under "w.s.c".
C18_Witness ==
    /\ PushEnded
    /\ exc.what = CookieFailedText
    /\ cookie.domain = Site
    /\ todo # <<>>
    /\ Head(todo).domain = WwwSite
    /\ Head(todo) \in cookies

\* The browser holds what ensure_add_cookie added for the dict d: its name,
\* value and path under its domain or its registrable domain, dotted or not.
AddedFor(d) ==
    \E b \in driver_cookies :
        /\ b.name = d.name
        /\ b.value = d.value
        /\ b.path = d.path
        /\ b.domain \in {d.domain, <<".">> \o d.domain,
                         registered_domain(d.domain), <<".">> \o registered_domain(d.domain)}

\* C20: a failure of ensure_add_cookie ends the push at once. While a push
\* runs and when it has ended, every cookie passed on before the current one
\* has its entry in the browser; when the push has raised in the browser, the
\* last cookie passed on is the one that failed, none of the matching cookies
\* after it has been passed on, and the entries of those before it are still
\* in the browser.
C20_InjectionFailureSurfaces ==
    (op = PushOp /\ calls # <<>>) =>
        /\ \A i \in 1..(Len(calls) - 1) : AddedFor(calls[i])
        /\ (pc = "ready" /\ exc # NoExc) =>
               /\ exc.type = "WebDriverException"
               /\ todo # <<>>
               /\ calls[Len(calls)] = CookieDict(Head(todo))
               /\ \A j \in 2..Len(todo) :
                      \A i \in 1..Len(calls) : calls[i] # CookieDict(todo[j])
        /\ (pc = "ready" /\ exc = NoExc) => todo = <<>>

\* C20 witness: the second of two matching cookies has failed its check
\* after the retry; the entry of the first is in the browser.
C20_Witness ==
    /\ PushEnded
    /\ exc.what = CookieFailedText
    /\ Len(calls) = 2
    /\ Len(todo) = 1
    /\ AddedFor(calls[1])
    /\ ~AddedFor(calls[2])

====
